---------------------------- MODULE Spec2Model ----------------------------
(***************************************************************************)
(* The five stages of dataset_forge (ingest, refine, segment,              *)
(* semantic_draft, canonicalize) as a state machine over the filesystem.   *)
(*                                                                         *)
(* Text is a sequence of one-character strings.  A JSON value is a tagged  *)
(* record (JStr, JNum, JList, JObj, JNull).  A path is a directory (a      *)
(* sequence of components under the package root) and a file name split at *)
(* its dots.                                                               *)
(***************************************************************************)
EXTENDS Integers, Sequences, FiniteSets, TLC

VARIABLES fs,    \* path -> content of every file that exists
          dirs,  \* the output directories that exist
          last   \* the last stage invocation: its inputs and its outcome

vars == <<fs, dirs, last>>

(***************************************************************************)
(* Bounds of the model.                                                    *)
(***************************************************************************)
MaxTextLen == 7     \* characters of a raw text (segment / refine)
MaxParas == 2       \* top-level paragraphs of a DOCX body
MaxRuns == 2        \* runs of one paragraph
MaxChunks == 2      \* chunks of a chunks file handed to the drafting stage
MaxDrafts == 2      \* lines of a drafts file handed to canonicalize

(***************************************************************************)
(* Sequences.                                                              *)
(***************************************************************************)
SeqsUpTo(S, n) == UNION {[1..k -> S] : k \in 0..n}

RECURSIVE Concat(_)
Concat(ss) == IF ss = <<>> THEN <<>> ELSE Head(ss) \o Concat(Tail(ss))

\* sep.join(ss)
RECURSIVE Join(_, _)
Join(sep, ss) ==
    IF ss = <<>> THEN <<>>
    ELSE IF Len(ss) = 1 THEN ss[1]
    ELSE ss[1] \o sep \o Join(sep, Tail(ss))

IsPrefix(a, b) == Len(a) <= Len(b) /\ SubSeq(b, 1, Len(a)) = a

Last(s) == s[Len(s)]
Front(s) == SubSeq(s, 1, Len(s) - 1)

(***************************************************************************)
(* Characters: Python's str.isspace, str.lower, string.punctuation and the *)
(* regex class \w, on the characters the model uses.                       *)
(***************************************************************************)
Whitespace == {" ", "\n", "\t"}
\* string.punctuation, as far as the texts here go ("_" is also a word character)
Punctuation == {".", ",", "!", "-", "_", "?", ";"}
Letters == {"a", "b", "A", "B", "k", "j", "x", "s", "y", "Y", "n", "e"}
WordChar == Letters \cup {"_", "0", "1"}

LowerChar(c) ==
    CASE c = "A" -> "a"
      [] c = "B" -> "b"
      [] c = "Y" -> "y"
      [] OTHER -> c

\* str.lower()
lower(text) == [i \in 1..Len(text) |-> LowerChar(text[i])]

\* str.strip(): drop leading and trailing whitespace
RECURSIVE lstrip(_)
lstrip(text) ==
    IF text # <<>> /\ Head(text) \in Whitespace THEN lstrip(Tail(text)) ELSE text

RECURSIVE rstrip(_)
rstrip(text) ==
    IF text # <<>> /\ Last(text) \in Whitespace THEN rstrip(Front(text)) ELSE text

strip(text) == rstrip(lstrip(text))

\* str.split(): the maximal runs of non-whitespace characters
RECURSIVE SplitWs(_, _)
SplitWs(text, word) ==
    IF text = <<>> THEN (IF word = <<>> THEN <<>> ELSE <<word>>)
    ELSE IF Head(text) \in Whitespace
         THEN (IF word = <<>> THEN <<>> ELSE <<word>>) \o SplitWs(Tail(text), <<>>)
         ELSE SplitWs(Tail(text), Append(word, Head(text)))

split(text) == SplitWs(text, <<>>)

\* str.split(sep) for a one-character separator: every piece, empty ones too
RECURSIVE SplitOn(_, _, _)
SplitOn(text, sep, piece) ==
    IF text = <<>> THEN <<piece>>
    ELSE IF Head(text) = sep
         THEN <<piece>> \o SplitOn(Tail(text), sep, <<>>)
         ELSE SplitOn(Tail(text), sep, Append(piece, Head(text)))

SelectNonEmpty(ss) == SelectSeq(ss, LAMBDA s : s # <<>>)

(***************************************************************************)
(* JSON values.                                                            *)
(***************************************************************************)
JStr(s) == [t |-> "str", chars |-> s]
JNum(n) == [t |-> "num", num |-> n]
JList(xs) == [t |-> "list", items |-> xs]
JObj(f) == [t |-> "obj", fields |-> f]
JBool(b) == [t |-> "bool", bool |-> b]
JNull == [t |-> "null"]

NoFields == [k \in {} |-> JNull]

\* dict[key] = value
SetField(f, key, value) == [k \in DOMAIN f \cup {key} |-> IF k = key THEN value ELSE f[k]]

\* dict.get(key, default)
Get(f, key, default) == IF key \in DOMAIN f THEN f[key] ELSE default

\* Python truthiness of a JSON value, as "x or default" uses it
Truthy(v) ==
    CASE v.t = "str" -> v.chars # <<>>
      [] v.t = "num" -> v.num # 0
      [] v.t = "list" -> v.items # <<>>
      [] v.t = "obj" -> DOMAIN v.fields # {}
      [] v.t = "bool" -> v.bool
      [] OTHER -> FALSE

(***************************************************************************)
(* Paths.                                                                  *)
(***************************************************************************)
Path(dir, name) == [dir |-> dir, name |-> name]

LowerExt(e) ==
    CASE e = "TXT" -> "txt"
      [] e = "DOCX" -> "docx"
      [] e = "PDF" -> "pdf"
      [] e = "JSON" -> "json"
      [] e = "JSONL" -> "jsonl"
      [] OTHER -> e

\* Path.suffix.lower(): the part after the last dot, "" without one
suffix(p) == IF Len(p.name) > 1 THEN LowerExt(Last(p.name)) ELSE ""

\* Path.stem: the name without its last suffix
stem(p) == IF Len(p.name) > 1 THEN Front(p.name) ELSE p.name

\* the scoping check made against the data directory, not the stage's own
InParents_of_data_root(dir, p) == IsPrefix(SubSeq(dir, 1, 1), p.dir)

\* directory in source.parents
InParents(dir, p) == IsPrefix(dir, p.dir)

raw_dir == <<"data", "raw">>
refined_dir == <<"data", "refined">>
chunks_dir == <<"data", "chunks">>
drafts_dir == <<"data", "drafts">>
canonical_dir == <<"data", "canonical">>

Exists(p) == p \in DOMAIN fs

Write(files, p, content) ==
    [q \in DOMAIN files \cup {p} |-> IF q = p THEN content ELSE files[q]]

TextFile(chars) == [kind |-> "text", chars |-> chars]
JsonFile(value) == [kind |-> "json", value |-> value]
JsonlFile(lines) == [kind |-> "jsonl", lines |-> lines]

\* The record of one invocation.
Outcome(stage, source, status, written, prompts, inputs) ==
    [stage |-> stage, source |-> source, status |-> status,
     written |-> written, prompts |-> prompts, inputs |-> inputs]

NoInvocation == Outcome("none", Path(<<>>, <<>>), "none", {}, 0, <<>>)


(***************************************************************************)
(* Ingest (ingest.py).                                                     *)
(*                                                                         *)
(* An XML element is [tag, text, children]; ElementTree's text of None and *)
(* of "" are both the empty sequence, as "node.text or ''" makes them.     *)
(***************************************************************************)
Node(tag, text, children) == [tag |-> tag, text |-> text, children |-> children]

\* Element.iter(): the element and its descendants, in document order
RECURSIVE iter(_)
iter(node) ==
    <<node>> \o Concat([i \in 1..Len(node.children) |-> iter(node.children[i])])

\* root.iterfind(".//w:p"): every descendant paragraph, in document order
iterfind_p(root) ==
    SelectSeq(Tail(iter(root)), LAMBDA n : n.tag = "p")

\* the piece one node of a paragraph contributes (ingest.py:38-47)
NodePart(node) ==
    CASE node.tag = "t" -> <<node.text>>
      [] node.tag = "tab" -> <<<<"\t">>>>
      [] node.tag \in {"br", "cr"} -> <<<<"\n">>>>
      [] OTHER -> <<>>

ParagraphText(para) ==
    LET nodes == iter(para)
    IN Concat(Concat([i \in 1..Len(nodes) |-> NodePart(nodes[i])]))

extract_docx_text(root) ==
    LET paras == iterfind_p(root)
    IN Join(<<"\n">>, [i \in 1..Len(paras) |-> ParagraphText(paras[i])])

\* pages yielding no text contribute nothing
extract_pdf_text(pages) == Concat(SelectNonEmpty(pages))

DocxFile(root) == [kind |-> "docx", root |-> root]
PdfFile(pages) == [kind |-> "pdf", pages |-> pages]
BrokenFile == [kind |-> "broken"]

IngestOutput(source) == Path(raw_dir, stem(source) \o <<"txt">>)

IngestMain(source, PdfReader) ==
    LET fail(status) ==
            /\ last' = Outcome("ingest", source, status, {}, 0, <<>>)
            /\ UNCHANGED <<fs, dirs>>
        done(text) ==
            /\ fs' = Write(fs, IngestOutput(source), TextFile(text))
            /\ dirs' = dirs \cup {raw_dir}
            /\ last' = Outcome("ingest", source, "ok", {IngestOutput(source)}, 0, <<>>)
    IN IF ~Exists(source) THEN fail("NotFound")
       ELSE IF suffix(source) = "pdf"
            THEN IF ~PdfReader THEN fail("DependencyMissing")
                 ELSE IF fs[source].kind # "pdf" THEN fail("ExtractionError")
                 ELSE done(extract_pdf_text(fs[source].pages))
       ELSE IF suffix(source) = "docx"
            THEN IF fs[source].kind # "docx" THEN fail("ExtractionError")
                 ELSE done(extract_docx_text(fs[source].root))
       ELSE fail("InvalidInput")

(***************************************************************************)
(* Refine (refine.py).                                                     *)
(***************************************************************************)
\* the edges trimmed, the inner whitespace left as it is
normalize_whitespace_edges_only(text) == strip(text)

normalize_whitespace(text) == Join(<<" ">>, split(text))

remove_punctuation(text) == SelectSeq(text, LAMBDA c : c \notin Punctuation)

\* re.findall(r"\b\w+\b", s): the maximal runs of word characters
RECURSIVE FindWords(_, _)
FindWords(text, word) ==
    IF text = <<>> THEN (IF word = <<>> THEN <<>> ELSE <<word>>)
    ELSE IF Head(text) \in WordChar
         THEN FindWords(Tail(text), Append(word, Head(text)))
         ELSE (IF word = <<>> THEN <<>> ELSE <<word>>) \o FindWords(Tail(text), <<>>)

\* Counter(tokens): <<token, count>> pairs in first-seen order
RECURSIVE Counter(_, _)
Counter(tokens, counted) ==
    IF tokens = <<>> THEN counted
    ELSE LET tok == Head(tokens)
             at == {i \in 1..Len(counted) : counted[i][1] = tok}
         IN Counter(Tail(tokens),
                    IF at = {} THEN Append(counted, <<tok, 1>>)
                    ELSE [i \in 1..Len(counted) |->
                             IF i \in at THEN <<tok, counted[i][2] + 1>> ELSE counted[i]])

token_counts(text) == Counter(FindWords(lower(text), <<>>), <<>>)

CountsFile(pairs) == [kind |-> "counts", pairs |-> pairs]

RefineOutput(source, variant, ext) == Path(refined_dir, stem(source) \o <<variant, ext>>)

RefineMain(source) ==
    LET fail(status) ==
            /\ last' = Outcome("refine", source, status, {}, 0, <<>>)
            /\ UNCHANGED <<fs, dirs>>
        text == fs[source].chars
        normalized_path == RefineOutput(source, "normalized", "txt")
        punctuation_removed_path == RefineOutput(source, "nopunct", "txt")
        lowercased_path == RefineOutput(source, "lower", "txt")
        counts_path == RefineOutput(source, "counts", "json")
    IN IF ~Exists(source) THEN fail("NotFound")
       ELSE IF suffix(source) # "txt" THEN fail("InvalidInput")
       ELSE IF ~InParents(raw_dir, source) THEN fail("InvalidInput")
       ELSE /\ fs' = Write(Write(Write(Write(fs,
                        normalized_path, TextFile(normalize_whitespace(text))),
                        punctuation_removed_path, TextFile(remove_punctuation(text))),
                        lowercased_path, TextFile(lower(text))),
                        counts_path, CountsFile(token_counts(text)))
            /\ dirs' = dirs \cup {refined_dir}
            /\ last' = Outcome("refine", source, "ok",
                               {normalized_path, punctuation_removed_path,
                                lowercased_path, counts_path}, 0, <<>>)

(***************************************************************************)
(* Segment (segment.py).                                                   *)
(***************************************************************************)
\* the length of the run of newlines that starts text
RECURSIVE NewlineRun(_)
NewlineRun(text) ==
    IF text # <<>> /\ Head(text) = "\n" THEN 1 + NewlineRun(Tail(text)) ELSE 0

\* re.split(r"\n{2,}", text): leftmost, greedy separators; every piece kept
RECURSIVE ReSplit(_, _)
ReSplit(text, piece) ==
    IF text = <<>> THEN <<piece>>
    ELSE IF NewlineRun(text) >= 2
         THEN <<piece>> \o ReSplit(SubSeq(text, NewlineRun(text) + 1, Len(text)), <<>>)
         ELSE ReSplit(Tail(text), Append(piece, Head(text)))

\* the empty pieces kept
split_chunks_keeping_empty(text) ==
    LET parts == ReSplit(text, <<>>)
    IN [i \in 1..Len(parts) |-> strip(parts[i])]

split_chunks(text) ==
    LET parts == ReSplit(text, <<>>)
        trimmed == [i \in 1..Len(parts) |-> strip(parts[i])]
    IN SelectNonEmpty(trimmed)

DigitChar == <<"0", "1", "2", "3", "4", "5", "6", "7", "8", "9">>

\* str(n), n >= 0
RECURSIVE Decimal(_)
Decimal(n) ==
    IF n < 10 THEN <<DigitChar[n + 1]>> ELSE Append(Decimal(n \div 10), DigitChar[(n % 10) + 1])

\* f"{n:04d}": zero-padded on the left to at least four digits
RECURSIVE ZeroPad(_, _)
ZeroPad(digits, width) ==
    IF Len(digits) >= width THEN digits ELSE ZeroPad(<<"0">> \o digits, width)

IdWidth == 4

ChunkId(index) == <<"c", "h", "u", "n", "k", "-">> \o ZeroPad(Decimal(index), IdWidth)

ChunkRecord(id, text) == JObj([id |-> JStr(id), text |-> JStr(text)])

build_records(chunks) ==
    [i \in 1..Len(chunks) |-> ChunkRecord(ChunkId(i), chunks[i])]

SegmentOutput(source) == Path(chunks_dir, stem(source) \o <<"chunks", "json">>)

SegmentMain(source) ==
    LET fail(status) ==
            /\ last' = Outcome("segment", source, status, {}, 0, <<>>)
            /\ UNCHANGED <<fs, dirs>>
    IN IF ~Exists(source) THEN fail("NotFound")
       ELSE IF suffix(source) # "txt" THEN fail("InvalidInput")
       ELSE IF ~InParents(refined_dir, source) THEN fail("InvalidInput")
       ELSE /\ fs' = Write(fs, SegmentOutput(source),
                           JsonFile(JList(build_records(split_chunks(fs[source].chars)))))
            /\ dirs' = dirs \cup {chunks_dir}
            /\ last' = Outcome("segment", source, "ok", {SegmentOutput(source)}, 0, <<>>)

(***************************************************************************)
(* A JSON text, as a line of a .jsonl file or as the content of an LLM     *)
(* message: NoContent (no content at all, Python's None), EmptyText (""),  *)
(* BlankText (whitespace only), Garbage (text that is no JSON) or          *)
(* JsonText(v), the serialisation of the JSON value v.                     *)
(***************************************************************************)
NoContent == [k |-> "none"]
EmptyText == [k |-> "empty"]
BlankText == [k |-> "blank"]
Garbage == [k |-> "garbage"]
JsonText(v) == [k |-> "json", value |-> v]

\* json.loads(text): the value, or JSONDecodeError
json_loads(text) ==
    IF text.k = "json" THEN [ok |-> TRUE, value |-> text.value]
    ELSE [ok |-> FALSE, value |-> JNull]

\* json.dumps(value)
json_dumps(value) == JsonText(value)

(***************************************************************************)
(* Semantic draft (semantic_draft.py).                                     *)
(***************************************************************************)
FallbackDraft(chunk_id) ==
    JObj([chunk_id |-> chunk_id, title |-> JStr(<<>>), summary |-> JStr(<<>>),
          keywords |-> JList(<<>>), confidence |-> JNum(0)])

\* x or default
Or(v, default) == IF Truthy(v) THEN v ELSE default

\* draft_semantic_entry, given the content of the LLM's message:
\* [ok |-> TRUE, data |-> the record], or not ok: the AttributeError of a
\* chunk that is no object, the TypeError of a response that is no object
draft_semantic_entry(chunk, response) ==
    LET chunk_id == Or(Get(chunk.fields, "id", JNull), JStr(<<>>))
        content == IF response.k \in {"none", "empty"}
                   THEN JsonText(JObj(NoFields))
                   ELSE response
        parsed == json_loads(content)
        data == IF parsed.ok THEN parsed.value ELSE FallbackDraft(chunk_id)
    IN IF chunk.t = "obj" /\ data.t = "obj"
       THEN [ok |-> TRUE, data |-> JObj(SetField(data.fields, "confidence", JNum(0)))]
       ELSE [ok |-> FALSE, data |-> JNull]

\* json.loads of the file, as "for chunk in chunks" iterates it: the items of
\* a list; the keys of an object (a counts file), which are strings
load_chunks(file) ==
    IF file.kind = "json" THEN file.value.items
    ELSE [i \in 1..Len(file.pairs) |-> JStr(file.pairs[i][1])]

\* str.removesuffix(".chunks") on the stem
RemoveChunksSuffix(name) ==
    IF Len(name) > 1 /\ Last(name) = "chunks" THEN Front(name) ELSE name

DraftOutput(source) ==
    Path(drafts_dir, RemoveChunksSuffix(stem(source)) \o <<"drafts", "jsonl">>)

\* responses[i] is the content of the LLM's message for the i-th chunk; the
\* call may also raise (APIError)
DraftMain(source, OpenAI, api_key, responses) ==
    LET fail(status, asked) ==
            /\ last' = Outcome("semantic_draft", source, status, {}, 0, asked)
            /\ UNCHANGED <<fs, dirs>>
        chunks == load_chunks(fs[source])
        drafted == [i \in 1..Len(chunks) |-> draft_semantic_entry(chunks[i], responses[i])]
        records == [i \in 1..Len(chunks) |-> drafted[i].data]
        failed == {i \in 1..Len(chunks) : responses[i].k = "raise" \/ ~drafted[i].ok}
    IN IF ~Exists(source) THEN fail("NotFound", <<>>)
       ELSE IF suffix(source) # "json" THEN fail("InvalidInput", <<>>)
       ELSE IF ~InParents(chunks_dir, source) THEN fail("InvalidInput", <<>>)
       ELSE IF ~OpenAI THEN fail("DependencyMissing", <<>>)
       ELSE IF ~api_key THEN fail("ConfigurationError", <<>>)
       ELSE IF failed # {}
            THEN LET i == CHOOSE i \in failed : \A j \in failed : i <= j
                 IN fail(IF chunks[i].t # "obj" THEN "AttributeError"
                         ELSE IF responses[i].k = "raise" THEN "APIError"
                         ELSE "TypeError",
                         SubSeq(responses, 1, IF chunks[i].t # "obj" THEN i - 1 ELSE i))
       ELSE /\ fs' = Write(fs, DraftOutput(source),
                           JsonlFile([i \in 1..Len(records) |-> json_dumps(records[i])]))
            /\ dirs' = dirs \cup {drafts_dir}
            /\ last' = Outcome("semantic_draft", source, "ok",
                               {DraftOutput(source)}, 0, responses)

(***************************************************************************)
(* Canonicalize (canonicalize.py).                                         *)
(***************************************************************************)
REQUIRED_FIELDS == {"chunk_id", "title", "summary", "keywords", "confidence"}

\* validate_record: "ok", or the exception it raises
validate_record(record) ==
    IF record.t # "obj" THEN "AttributeError"
    ELSE IF REQUIRED_FIELDS \ DOMAIN record.fields # {} THEN "ValueError"
    ELSE IF Get(record.fields, "keywords", JNull).t # "list" THEN "ValueError"
    ELSE "ok"

\* the outcome of one line: "skip" (blank), "ok", or the exception
LineStatus(line) ==
    IF line.k \in {"blank", "empty"} THEN "skip"
    ELSE IF ~json_loads(line).ok THEN "ValueError"
    ELSE validate_record(json_loads(line).value)

\* the invalid lines skipped instead of raised
load_jsonl_skipping_invalid(lines) ==
    LET kept == SelectSeq(lines, LAMBDA l : LineStatus(l) = "ok")
    IN [status |-> "ok", line_number |-> 0,
        records |-> [i \in 1..Len(kept) |-> json_loads(kept[i]).value]]

\* load_jsonl: the records in file order, or the first line's exception
load_jsonl(lines) ==
    LET bad == {i \in 1..Len(lines) : LineStatus(lines[i]) \notin {"skip", "ok"}}
        kept == SelectSeq(lines, LAMBDA l : LineStatus(l) = "ok")
    IN IF bad = {}
       THEN [status |-> "ok", line_number |-> 0,
             records |-> [i \in 1..Len(kept) |-> json_loads(kept[i]).value]]
       ELSE LET n == CHOOSE i \in bad : \A j \in bad : i <= j
            IN [status |-> LineStatus(lines[n]), line_number |-> n, records |-> <<>>]

\* the response stored even when it is empty
prompt_field_storing_empty(current, response) == JStr(strip(response))

\* prompt_field: the trimmed response, or the current value on an empty one
prompt_field(current, response) ==
    IF strip(response) # <<>> THEN JStr(strip(response)) ELSE current

\* ", ".join(keywords) raises TypeError on an item that is no string
JoinRaises(keywords) == \E i \in 1..Len(keywords.items) : keywords.items[i].t # "str"

\* [kw.strip() for kw in keywords_input.split(",") if kw.strip()]
ParseKeywords(keywords_input) ==
    LET pieces == SplitOn(keywords_input, ",", <<>>)
        trimmed == SelectNonEmpty([i \in 1..Len(pieces) |-> strip(pieces[i])])
    IN JList([i \in 1..Len(trimmed) |-> JStr(trimmed[i])])

\* any response that starts with "y" approves
Approved_by_first_letter(approve_input) ==
    lower(strip(approve_input)) # <<>> /\ Head(lower(strip(approve_input))) = "y"

Approved(approve_input) == lower(strip(approve_input)) = <<"y">>

\* answer: what the reviewer types at the four prompts
prompt_edit(record, answer) ==
    LET f == record.fields
        keywords_input == strip(answer.keywords)
    IN JObj([chunk_id |-> Get(f, "chunk_id", JStr(<<>>)),
             title |-> prompt_field(Get(f, "title", JStr(<<>>)), answer.title),
             summary |-> prompt_field(Get(f, "summary", JStr(<<>>)), answer.summary),
             keywords |-> IF keywords_input # <<>> THEN ParseKeywords(keywords_input)
                          ELSE Get(f, "keywords", JList(<<>>)),
             confidence |-> Get(f, "confidence", JNum(0)),
             approved |-> JBool(Approved(answer.approve))])

PromptsPerRecord == 4
PromptsBeforeJoin == 2

CanonicalOutput(source) ==
    Path(canonical_dir, stem(source) \o <<"canonical", "jsonl">>)

\* answers[i] is the reviewer's input for the i-th record
CanonicalizeMain(source, answers) ==
    LET fail(status, made, prompts) ==
            /\ last' = Outcome("canonicalize", source, status, {}, prompts, answers)
            /\ dirs' = dirs \cup made
            /\ UNCHANGED fs
        loaded == load_jsonl(fs[source].lines)
        drafts == loaded.records
        crash == {i \in 1..Len(drafts) : JoinRaises(Get(drafts[i].fields, "keywords", JList(<<>>)))}
        canonical_records == [i \in 1..Len(drafts) |-> prompt_edit(drafts[i], answers[i])]
    IN IF ~Exists(source) THEN fail("NotFound", {}, 0)
       ELSE IF suffix(source) # "jsonl" THEN fail("InvalidInput", {}, 0)
       ELSE IF ~InParents(drafts_dir, source) THEN fail("InvalidInput", {}, 0)
       ELSE IF loaded.status # "ok" THEN fail(loaded.status, {}, 0)
       ELSE IF crash # {}
            THEN LET n == CHOOSE i \in crash : \A j \in crash : i <= j
                 IN fail("TypeError", {canonical_dir},
                         PromptsPerRecord * (n - 1) + PromptsBeforeJoin)
       ELSE /\ fs' = Write(fs, CanonicalOutput(source),
                           JsonlFile([i \in 1..Len(canonical_records) |->
                                          json_dumps(canonical_records[i])]))
            /\ dirs' = dirs \cup {canonical_dir}
            /\ last' = Outcome("canonicalize", source, "ok", {CanonicalOutput(source)},
                               PromptsPerRecord * Len(drafts), answers)

(***************************************************************************)
(* Inputs of the model.                                                    *)
(***************************************************************************)
T(text) == Node("t", text, <<>>)
Tab == Node("tab", <<>>, <<>>)
Br == Node("br", <<>>, <<>>)
Cr == Node("cr", <<>>, <<>>)
Run(children) == Node("r", <<>>, children)
Para(children) == Node("p", <<>>, children)
\* a run holding a text box whose content is the paragraph para
TextBox(para) == Run(<<Node("pict", <<>>, <<Node("txbxContent", <<>>, <<para>>)>>)>>)
Document(paras) == Node("document", <<>>, <<Node("body", <<>>, paras)>>)

SimpleRuns == {Run(<<leaf>>) : leaf \in {T(<<"a">>), T(<<"b">>), T(<<>>), Tab, Br, Cr}}
SimpleParas(n) == {Para(runs) : runs \in SeqsUpTo(SimpleRuns, n)}
BoxedParas ==
    {Para(pre \o <<TextBox(inner)>>) : pre \in SeqsUpTo(SimpleRuns, 1), inner \in SimpleParas(1)}
Bodies == {Document(paras) : paras \in SeqsUpTo(SimpleParas(MaxRuns) \cup BoxedParas, MaxParas)}

inbox == <<"inbox">>

Answer(title, summary, keywords, approve) ==
    [title |-> title, summary |-> summary, keywords |-> keywords, approve |-> approve]

Quiet == Answer(<<>>, <<>>, <<>>, <<>>)

ReviewerAnswers ==
    {Quiet,
     Answer(<<" ">>, <<"s">>, <<",">>, <<"y">>),
     Answer(<<" ", "x", " ">>, <<>>, <<"k", ",", " ", "j">>, <<"Y">>),
     Answer(<<>>, <<" ">>, <<" ">>, <<" ", "y", " ">>),
     Answer(<<"x">>, <<"s">>, <<"j", ",", ",">>, <<"y", "e", "s">>)}

Draft(chunk_id, title, summary, keywords, confidence) ==
    JObj([chunk_id |-> JStr(chunk_id), title |-> JStr(title), summary |-> JStr(summary),
          keywords |-> keywords, confidence |-> JNum(confidence)])

GoodDraft(chunk_id) == Draft(chunk_id, <<"a">>, <<"b">>, JList(<<JStr(<<"k">>)>>), 9)

\* a JSON object without chunk_id, with a field nobody asked for
NoChunkId ==
    JObj([title |-> JStr(<<"a">>), summary |-> JStr(<<>>), keywords |-> JList(<<>>),
          confidence |-> JNum(9), note |-> JNull])

APIRaises == [k |-> "raise"]

LLMResponses ==
    {NoContent, EmptyText, Garbage, APIRaises,
     JsonText(JObj(NoFields)), JsonText(JList(<<>>)), JsonText(NoChunkId),
     JsonText(GoodDraft(ChunkId(1))), JsonText(GoodDraft(ChunkId(2)))}

DraftLines ==
    {BlankText, Garbage, JsonText(JList(<<>>)),
     JsonText(GoodDraft(ChunkId(1))),
     JsonText(Draft(ChunkId(2), <<>>, <<>>, JList(<<>>), 0)),
     JsonText(Draft(ChunkId(3), <<"a">>, <<>>, JList(<<JNum(1)>>), 0)),
     JsonText(Draft(ChunkId(4), <<"a">>, <<>>, JStr(<<"k">>), 0)),
     JsonText(NoChunkId)}

\* the sequences of inputs an invocation on source consumes
ResponsesFor(source, R) ==
    IF Exists(source) /\ fs[source].kind \in {"json", "counts"}
    THEN [1..Len(load_chunks(fs[source])) -> R]
    ELSE {<<>>}

AnswersFor(source, A) ==
    IF Exists(source) /\ fs[source].kind = "jsonl"
    THEN [1..Len(load_jsonl(fs[source].lines).records) -> A]
    ELSE {<<>>}

(***************************************************************************)
(* SpecIngest: one DOCX of Bodies in the inbox, and the ingest stage.      *)
(***************************************************************************)
InitIngest ==
    /\ \E root \in Bodies : fs = [p \in {Path(inbox, <<"doc", "docx">>)} |-> DocxFile(root)]
    /\ dirs = {}
    /\ last = NoInvocation

Ingest == \E source \in DOMAIN fs, PdfReader \in BOOLEAN : IngestMain(source, PdfReader)

NextIngest == Ingest

SpecIngest == InitIngest /\ [][NextIngest]_vars

(***************************************************************************)
(* SpecSegment: a raw text in data/raw, refined and then segmented.        *)
(***************************************************************************)
RawTexts == SeqsUpTo({"a", " ", "\n"}, MaxTextLen)

raw_doc == Path(raw_dir, <<"doc", "txt">>)

InitSegment ==
    /\ \E text \in RawTexts : fs = [p \in {raw_doc} |-> TextFile(text)]
    /\ dirs = {raw_dir}
    /\ last = NoInvocation

Refine == \E source \in {p \in DOMAIN fs : p.dir = raw_dir} : RefineMain(source)

Segment ==
    \E source \in {p \in DOMAIN fs : p.dir = refined_dir /\ Last(p.name) = "txt"} :
        SegmentMain(source)

NextSegment == Refine \/ Segment

SpecSegment == InitSegment /\ [][NextSegment]_vars

(***************************************************************************)
(* SpecDraft: a chunks file as segment writes it, drafted with every       *)
(* response of LLMResponses.                                               *)
(***************************************************************************)
ChunkLists == {build_records(texts) : texts \in SeqsUpTo({<<"a">>, <<"b", " ", "a">>}, MaxChunks)}

chunks_doc == Path(chunks_dir, <<"doc", "chunks", "json">>)

InitDraft ==
    /\ \E chunks \in ChunkLists : fs = [p \in {chunks_doc} |-> JsonFile(JList(chunks))]
    /\ dirs = {raw_dir, refined_dir, chunks_dir}
    /\ last = NoInvocation

DraftAll ==
    \E source \in {chunks_doc}, OpenAI \in BOOLEAN, api_key \in BOOLEAN :
        \E responses \in ResponsesFor(source, LLMResponses) :
            DraftMain(source, OpenAI, api_key, responses)

NextDraft == DraftAll

SpecDraft == InitDraft /\ [][NextDraft]_vars

(***************************************************************************)
(* SpecCanon: a drafts file of up to MaxDrafts lines, reviewed.            *)
(***************************************************************************)
drafts_doc == Path(drafts_dir, <<"doc", "drafts", "jsonl">>)

InitCanon ==
    /\ \E lines \in SeqsUpTo(DraftLines, MaxDrafts) :
           fs = [p \in {drafts_doc} |-> JsonlFile(lines)]
    /\ dirs = {raw_dir, refined_dir, chunks_dir, drafts_dir}
    /\ last = NoInvocation

Canonicalize ==
    \E source \in {drafts_doc} :
        \E answers \in AnswersFor(source, ReviewerAnswers) : CanonicalizeMain(source, answers)

NextCanon == Canonicalize

SpecCanon == InitCanon /\ [][NextCanon]_vars

(***************************************************************************)
(* Spec: one document driven through the five stages, each stage invoked   *)
(* with any path of PipelineSources.                                       *)
(***************************************************************************)
inbox_docx == Path(inbox, <<"doc", "DOCX">>)
inbox_pdf == Path(inbox, <<"doc", "pdf">>)
inbox_txt == Path(inbox, <<"doc", "lower", "txt">>)
inbox_chunks == Path(inbox, <<"doc", "lower", "chunks", "json">>)
inbox_drafts == Path(inbox, <<"doc", "lower", "drafts", "jsonl">>)
refined_doc == Path(refined_dir, <<"doc", "lower", "txt">>)
refined_counts == Path(refined_dir, <<"doc", "counts", "json">>)
pipeline_chunks == Path(chunks_dir, <<"doc", "lower", "chunks", "json">>)
pipeline_drafts == Path(drafts_dir, <<"doc", "lower", "drafts", "jsonl">>)
missing_doc == Path(raw_dir, <<"missing", "txt">>)
\* drafts files edited by hand: a line that is no JSON, keywords that are no list
edited_garbage == Path(drafts_dir, <<"garbage", "drafts", "jsonl">>)
edited_keywords == Path(drafts_dir, <<"keywords", "drafts", "jsonl">>)

PipelineSources ==
    {inbox_docx, inbox_pdf, inbox_txt, inbox_chunks, inbox_drafts, raw_doc, refined_doc,
     refined_counts, pipeline_chunks, pipeline_drafts, missing_doc, edited_garbage,
     edited_keywords}

PipelineDocument ==
    Document(<<Para(<<Run(<<T(<<"A">>)>>), Run(<<T(<<".">>)>>)>>), Para(<<>>),
               Para(<<Run(<<T(<<"b">>)>>)>>)>>)

PipelineResponses == {Garbage, JsonText(GoodDraft(ChunkId(1))), JsonText(NoChunkId)}

PipelineAnswers == {Quiet, Answer(<<"x">>, <<"s">>, <<"j">>, <<"y">>)}

Init ==
    /\ fs = [p \in {inbox_docx, inbox_pdf, inbox_txt, inbox_chunks, inbox_drafts,
                     edited_garbage, edited_keywords} |->
                CASE p = inbox_docx -> DocxFile(PipelineDocument)
                  [] p = edited_garbage ->
                         JsonlFile(<<JsonText(GoodDraft(ChunkId(1))), BlankText, Garbage>>)
                  [] p = edited_keywords ->
                         JsonlFile(<<JsonText(GoodDraft(ChunkId(1))),
                                     JsonText(Draft(ChunkId(2), <<"a">>, <<>>, JStr(<<"k">>), 0))>>)
                  [] p = inbox_pdf -> BrokenFile
                  [] p = inbox_txt -> TextFile(<<"a", "\n", "\n", "b">>)
                  [] p = inbox_chunks -> JsonFile(JList(build_records(<<<<"a">>, <<"b">>>>)))
                  [] p = inbox_drafts ->
                         JsonlFile(<<JsonText(GoodDraft(ChunkId(1))),
                                     JsonText(GoodDraft(ChunkId(2)))>>)]
    /\ dirs = {drafts_dir}
    /\ last = NoInvocation

IngestAny == \E source \in PipelineSources, PdfReader \in BOOLEAN : IngestMain(source, PdfReader)

RefineAny == \E source \in PipelineSources : RefineMain(source)

SegmentAny == \E source \in PipelineSources : SegmentMain(source)

DraftAny ==
    \E source \in PipelineSources, OpenAI \in BOOLEAN, api_key \in BOOLEAN :
        \E responses \in ResponsesFor(source, PipelineResponses) :
            DraftMain(source, OpenAI, api_key, responses)

CanonicalizeAny ==
    \E source \in PipelineSources :
        \E answers \in AnswersFor(source, PipelineAnswers) : CanonicalizeMain(source, answers)

Next == IngestAny \/ RefineAny \/ SegmentAny \/ DraftAny \/ CanonicalizeAny

Spec == Init /\ [][Next]_vars

(***************************************************************************)
(* What the properties read off a state.                                   *)
(***************************************************************************)
Ran(stage) == last.stage = stage /\ last.status = "ok"

\* the JSON values of the lines of a .jsonl file
Records(p) == [i \in 1..Len(fs[p].lines) |-> fs[p].lines[i].value]

HasField(v, key) == v.t = "obj" /\ key \in DOMAIN v.fields

IsEmptyStr(v) == v.t = "str" /\ v.chars = <<>>

AllWhitespace(text) == \A i \in 1..Len(text) : text[i] \in Whitespace

\* the elements of a set of integers in increasing order
RECURSIVE Ascending(_)
Ascending(S) ==
    IF S = {} THEN <<>>
    ELSE LET m == CHOOSE x \in S : \A y \in S : x <= y
         IN <<m>> \o Ascending(S \ {m})

(***************************************************************************)
(* Segmentation, stated on positions of the text: a position is in a       *)
(* separator when it holds a newline next to another newline; a piece is a *)
(* maximal interval of positions outside separators; trimming keeps the    *)
(* characters from the first to the last that is no whitespace.            *)
(***************************************************************************)
InSeparator(text, i) ==
    /\ text[i] = "\n"
    /\ \/ i > 1 /\ text[i - 1] = "\n"
       \/ i < Len(text) /\ text[i + 1] = "\n"

PieceStarts(text) ==
    {i \in 1..Len(text) :
        ~InSeparator(text, i) /\ (i = 1 \/ InSeparator(text, i - 1))}

PieceEnd(text, lo) ==
    CHOOSE hi \in lo..Len(text) :
        /\ \A j \in lo..hi : ~InSeparator(text, j)
        /\ hi = Len(text) \/ InSeparator(text, hi + 1)

Trimmed(text) ==
    LET solid == {i \in 1..Len(text) : text[i] \notin Whitespace}
    IN IF solid = {} THEN <<>>
       ELSE SubSeq(text, CHOOSE i \in solid : \A j \in solid : i <= j,
                         CHOOSE i \in solid : \A j \in solid : j <= i)

TrimmedPieces(text) ==
    LET starts == Ascending(PieceStarts(text))
    IN [k \in 1..Len(starts) |-> Trimmed(SubSeq(text, starts[k], PieceEnd(text, starts[k])))]

\* the digits 1..9 as the four-digit ordinal of an id
Ordinal4 == [k \in 1..9 |-> <<"0", "0", "0", DigitChar[k + 1]>>]

SegmentedText == fs[last.source].chars
SegmentedChunks == fs[SegmentOutput(last.source)].value.items

\* C2: the records segment writes for a text T are the non-empty trimmed
\* pieces of T between runs of two or more newlines, in document order, and
\* the k-th has the id "chunk-" followed by k zero-padded to four digits.
C2_SegmentChunks ==
    Ran("segment") =>
        LET expected == SelectSeq(TrimmedPieces(SegmentedText), LAMBDA piece : piece # <<>>)
        IN /\ Len(SegmentedChunks) = Len(expected)
           /\ \A k \in 1..Len(SegmentedChunks) :
                  /\ SegmentedChunks[k].fields.text = JStr(expected[k])
                  /\ expected[k] # <<>>
                  /\ Head(expected[k]) \notin Whitespace
                  /\ Last(expected[k]) \notin Whitespace
                  /\ SegmentedChunks[k].fields.id =
                         JStr(<<"c", "h", "u", "n", "k", "-">> \o Ordinal4[k])

\* two chunks written and a whitespace-only piece discarded between or before them
C2_Witness ==
    /\ Ran("segment")
    /\ Len(SegmentedChunks) = 2
    /\ \E k \in 1..Len(TrimmedPieces(SegmentedText)) : TrimmedPieces(SegmentedText)[k] = <<>>

normalized_doc == Path(refined_dir, <<"doc", "normalized", "txt">>)

\* C10: segmenting the normalized artifact of refine gives no chunk when the
\* raw text is empty or whitespace-only and otherwise the single chunk
\* chunk-0001 holding the whole normalized text, which has no newline, no
\* two consecutive spaces and no space at either end.
C10_NormalizedIsOneChunk ==
    (Ran("segment") /\ last.source = normalized_doc) =>
        LET raw == fs[raw_doc].chars
            normalized == fs[normalized_doc].chars
        IN /\ \A i \in 1..Len(normalized) :
                  /\ normalized[i] # "\n"
                  /\ normalized[i] = " " => (i > 1 /\ i < Len(normalized) /\ normalized[i + 1] # " ")
           /\ AllWhitespace(raw) => SegmentedChunks = <<>>
           /\ ~AllWhitespace(raw) =>
                  SegmentedChunks = <<ChunkRecord(<<"c", "h", "u", "n", "k", "-", "0", "0", "0", "1">>,
                                                  normalized)>>

\* a raw text of two paragraphs around a blank line, segmented into one chunk
C10_Witness ==
    /\ Ran("segment")
    /\ last.source = normalized_doc
    /\ Len(SelectSeq(TrimmedPieces(fs[raw_doc].chars), LAMBDA piece : piece # <<>>)) = 2
    /\ Len(SegmentedChunks) = 1

(***************************************************************************)
(* DOCX extraction: the nodes of a paragraph are the nodes below it that   *)
(* are in no paragraph nested in it.                                       *)
(***************************************************************************)
RECURSIVE OwnNodes(_)
OwnNodes(node) ==
    <<node>> \o Concat([i \in 1..Len(node.children) |->
                           IF node.children[i].tag = "p" THEN <<>>
                           ELSE OwnNodes(node.children[i])])

OwnText(para) ==
    LET nodes == OwnNodes(para)
    IN Concat(Concat([i \in 1..Len(nodes) |-> NodePart(nodes[i])]))

\* C9: the text ingest writes for a DOCX is one line per paragraph element,
\* in document order, each the pieces of that paragraph's nodes in document
\* order, every node contributing exactly once.
C9_EachNodeOnce ==
    (Ran("ingest") /\ fs[last.source].kind = "docx") =>
        LET paras == iterfind_p(fs[last.source].root)
        IN fs[IngestOutput(last.source)].chars =
               Join(<<"\n">>, [i \in 1..Len(paras) |-> OwnText(paras[i])])

(***************************************************************************)
(* Drafting.                                                               *)
(***************************************************************************)
DraftedChunks == load_chunks(fs[last.source])
DraftedRecords == Records(DraftOutput(last.source))

SameIds(chunks, records) ==
    /\ Len(records) = Len(chunks)
    /\ \A i \in 1..Len(chunks) :
           /\ HasField(records[i], "chunk_id")
           /\ records[i].fields.chunk_id = chunks[i].fields.id

\* C1: the i-th draft record and the i-th canonical record carry the id of
\* the i-th chunk, whatever JSON object or unparsable text the LLM returned.
C1_ChunkIdPreserved ==
    /\ Ran("semantic_draft") => SameIds(DraftedChunks, DraftedRecords)
    /\ (Ran("canonicalize") /\ last.source = pipeline_drafts) =>
           SameIds(load_chunks(fs[pipeline_chunks]), Records(CanonicalOutput(pipeline_drafts)))

\* a text that json.loads rejects
Unparsable(response) == response.k \in {"empty", "garbage"}

\* C6: a chunk whose LLM response cannot be parsed as JSON is drafted as the
\* empty record with the chunk's id and confidence 0.0, and the batch is
\* still written: responses that are unparsable or JSON objects never abort.
C6_UnparsableFallback ==
    (last.stage = "semantic_draft" /\ last.inputs # <<>>
       /\ \A i \in 1..Len(last.inputs) :
              Unparsable(last.inputs[i]) \/ (last.inputs[i].k = "json" /\ last.inputs[i].value.t = "obj")) =>
        /\ last.status = "ok"
        /\ Len(DraftedRecords) = Len(DraftedChunks)
        /\ \A i \in 1..Len(last.inputs) :
               Unparsable(last.inputs[i]) =>
                   DraftedRecords[i] =
                       JObj([chunk_id |-> DraftedChunks[i].fields.id, title |-> JStr(<<>>),
                             summary |-> JStr(<<>>), keywords |-> JList(<<>>),
                             confidence |-> JNum(0)])

(***************************************************************************)
(* Canonicalization.                                                       *)
(***************************************************************************)
\* a line that passes the schema: the five fields, keywords a list
ValidLine(line) ==
    /\ line.k = "json"
    /\ line.value.t = "obj"
    /\ {"chunk_id", "title", "summary", "keywords", "confidence"} \subseteq DOMAIN line.value.fields
    /\ line.value.fields.keywords.t = "list"

BlankLine(line) == line.k \in {"blank", "empty"}

ReviewedLines == SelectSeq(fs[last.source].lines, LAMBDA line : ~BlankLine(line))
ReviewedDrafts == [i \in 1..Len(ReviewedLines) |-> ReviewedLines[i].value]
CanonicalRecords == Records(CanonicalOutput(last.source))

\* C3: when every record of the drafts file is valid, canonicalize writes one
\* canonical record per record, in order, with its chunk_id and confidence.
C3_OneCanonicalPerDraft ==
    (last.stage = "canonicalize" /\ \A i \in 1..Len(ReviewedLines) : ValidLine(ReviewedLines[i])) =>
        /\ last.status = "ok"
        /\ Len(CanonicalRecords) = Len(ReviewedDrafts)
        /\ \A i \in 1..Len(ReviewedDrafts) :
               /\ CanonicalRecords[i].fields.chunk_id = ReviewedDrafts[i].fields.chunk_id
               /\ CanonicalRecords[i].fields.confidence = ReviewedDrafts[i].fields.confidence

\* C7: an empty response to the title, summary or keywords prompt keeps the
\* draft's value; a canonical title or summary is empty only if the draft's
\* was, and the keywords differ from the draft's only after a non-empty
\* response.
C7_EmptyResponseKeeps ==
    Ran("canonicalize") =>
        \A i \in 1..Len(ReviewedDrafts) :
            LET draft == ReviewedDrafts[i].fields
                canonical == CanonicalRecords[i].fields
                answer == last.inputs[i]
            IN /\ answer.title = <<>> => canonical.title = draft.title
               /\ answer.summary = <<>> => canonical.summary = draft.summary
               /\ answer.keywords = <<>> => canonical.keywords = draft.keywords
               /\ IsEmptyStr(canonical.title) => IsEmptyStr(draft.title)
               /\ IsEmptyStr(canonical.summary) => IsEmptyStr(draft.summary)
               /\ canonical.keywords # draft.keywords => answer.keywords # <<>>

\* a record reviewed with empty responses whose title and keywords were kept,
\* and one whose keywords the reviewer replaced
C7_Witness ==
    /\ Ran("canonicalize")
    /\ \E i \in 1..Len(ReviewedDrafts) :
           /\ last.inputs[i].title = <<>>
           /\ last.inputs[i].keywords = <<>>
           /\ ~IsEmptyStr(ReviewedDrafts[i].fields.title)
           /\ ReviewedDrafts[i].fields.keywords.items # <<>>
           /\ CanonicalRecords[i].fields.title = ReviewedDrafts[i].fields.title
    /\ \E i \in 1..Len(ReviewedDrafts) :
           /\ last.inputs[i].keywords # <<>>
           /\ CanonicalRecords[i].fields.keywords # ReviewedDrafts[i].fields.keywords

\* C8 as claimed: approved is true only for the response that is exactly "y".
C8_ExactTokenOnly ==
    Ran("canonicalize") =>
        \A i \in 1..Len(ReviewedDrafts) :
            CanonicalRecords[i].fields.approved = JBool(last.inputs[i].approve = <<"y">>)

\* one "y" or "Y" with nothing but whitespace around it
IsYes(response) ==
    \E k \in 1..Len(response) :
        /\ response[k] \in {"y", "Y"}
        /\ \A j \in 1..Len(response) : j # k => response[j] \in Whitespace

\* C8, amended: approved is true exactly when the response, trimmed of
\* surrounding whitespace and lowercased, is "y"; every other response, the
\* empty one and "yes" included, yields false.
C8_ApprovedIffTrimmedLowerY ==
    Ran("canonicalize") =>
        \A i \in 1..Len(ReviewedDrafts) :
            CanonicalRecords[i].fields.approved = JBool(IsYes(last.inputs[i].approve))

\* one record approved with "Y" and one rejected with "yes"
C8_Witness ==
    /\ Ran("canonicalize")
    /\ \E i \in 1..Len(ReviewedDrafts) :
           last.inputs[i].approve = <<"Y">> /\ CanonicalRecords[i].fields.approved = JBool(TRUE)
    /\ \E i \in 1..Len(ReviewedDrafts) :
           /\ last.inputs[i].approve = <<"y", "e", "s">>
           /\ CanonicalRecords[i].fields.approved = JBool(FALSE)

(***************************************************************************)
(* Validation of the source path.                                          *)
(***************************************************************************)
Stages == {"ingest", "refine", "segment", "semantic_draft", "canonicalize"}

RequiredExt(stage) ==
    CASE stage = "ingest" -> {"pdf", "docx", "PDF", "DOCX"}
      [] stage = "refine" -> {"txt", "TXT"}
      [] stage = "segment" -> {"txt", "TXT"}
      [] stage = "semantic_draft" -> {"json", "JSON"}
      [] stage = "canonicalize" -> {"jsonl", "JSONL"}
      [] OTHER -> {}

\* the directory a stage reads from; ingest has none
RequiredDir(stage) ==
    CASE stage = "refine" -> {<<"data", "raw">>}
      [] stage = "segment" -> {<<"data", "refined">>}
      [] stage = "semantic_draft" -> {<<"data", "chunks">>}
      [] stage = "canonicalize" -> {<<"data", "drafts">>}
      [] OTHER -> {}

Under(dir, p) == Len(p.dir) >= Len(dir) /\ \A i \in 1..Len(dir) : p.dir[i] = dir[i]

HasExt(stage, p) == Len(p.name) > 1 /\ p.name[Len(p.name)] \in RequiredExt(stage)

\* a drafts line that is invalid JSON, lacks a required field or has
\* keywords that are no list
InvalidLine(line) == ~BlankLine(line) /\ ~ValidLine(line)

FailsValidation(stage, p) ==
    \/ p \notin DOMAIN fs
    \/ ~HasExt(stage, p)
    \/ \E dir \in RequiredDir(stage) : ~Under(dir, p)
    \/ /\ stage = "canonicalize"
       /\ fs[p].kind = "jsonl"
       /\ \E i \in 1..Len(fs[p].lines) : InvalidLine(fs[p].lines[i])

\* C4: an invocation whose source is missing, has the wrong extension or is
\* outside the stage's directory, or for canonicalize holds an invalid line,
\* aborts with no reviewer prompt issued and no file or directory created or
\* overwritten.
C4_FailedValidationWritesNothing ==
    [][(last'.stage \in Stages /\ FailsValidation(last'.stage, last'.source)) =>
           /\ last'.status # "ok"
           /\ last'.prompts = 0
           /\ fs' = fs
           /\ dirs' = dirs]_vars

\* canonicalize rejected a drafts file whose canonical output an earlier run wrote
C4_Witness ==
    /\ last.stage = "canonicalize"
    /\ last.status = "ValueError"
    /\ CanonicalOutput(last.source) \in DOMAIN fs
    /\ \E i \in 1..Len(fs[last.source].lines) : InvalidLine(fs[last.source].lines[i])

\* C5 as claimed: each of the five stages, ingest too, rejects an existing
\* source with the right extension that is under no input directory of the
\* stage.
C5_ScopingOfAllFive ==
    [][(/\ last'.stage \in Stages
        /\ last'.source \in DOMAIN fs
        /\ HasExt(last'.stage, last'.source)
        /\ ~\E dir \in RequiredDir(last'.stage) : Under(dir, last'.source)) =>
           /\ last'.status = "InvalidInput"
           /\ fs' = fs]_vars

\* C5, amended: refine, segment, semantic draft and canonicalize reject, with
\* InvalidInput and no output, an existing source with the right extension
\* outside their input directory; ingest has no input directory.
C5_ScopingOfFour ==
    [][(/\ last'.stage \in Stages \ {"ingest"}
        /\ last'.source \in DOMAIN fs
        /\ HasExt(last'.stage, last'.source)
        /\ \E dir \in RequiredDir(last'.stage) : ~Under(dir, last'.source)) =>
           /\ last'.status = "InvalidInput"
           /\ fs' = fs]_vars

\* canonicalize rejected the valid drafts file of the inbox
C5_Witness ==
    /\ last.stage = "canonicalize"
    /\ last.source = inbox_drafts
    /\ last.status = "InvalidInput"
    /\ \A i \in 1..Len(fs[inbox_drafts].lines) : ValidLine(fs[inbox_drafts].lines[i])

=============================================================================
